---------------------------- MODULE Spec2Model ----------------------------
(***************************************************************************)
(* Model of extract_google_doc_content.py: the link resolver               *)
(* (extract_doc_id), the document flattener (read_doc_text) and main's row *)
(* loop with its batched writer (flush_updates).                           *)
(*                                                                         *)
(* A Python str is a sequence of one-character strings.  Python's None and *)
(* a value that is not a str are two reserved one-element sequences whose  *)
(* element is longer than one character, so they equal no str.             *)
(***************************************************************************)
EXTENDS Naturals, Sequences, FiniteSets

VARIABLES
    \* one call of extract_doc_id
    arg_url, ret_doc_id, id_pc,
    \* one call of read_doc_text
    service_doc, ret_text, doc_pc,
    \* main
    hyperlinks, i, pc, updates, processed_count, last_row,
    accumulated, fetched, flushes, sheet_calls

vars == <<arg_url, ret_doc_id, id_pc, service_doc, ret_text, doc_pc,
          hyperlinks, i, pc, updates, processed_count, last_row,
          accumulated, fetched, flushes, sheet_calls>>

id_vars == <<arg_url, ret_doc_id, id_pc>>
doc_vars == <<service_doc, ret_text, doc_pc>>
main_vars == <<hyperlinks, i, pc, updates, processed_count, last_row,
               accumulated, fetched, flushes, sheet_calls>>

-----------------------------------------------------------------------------
(* Python values and strings *)

NONE == <<"None">>
NONSTR == <<"int">>

IsStr(v) == v # NONE /\ v # NONSTR

\* str.strip() removes these from both ends
Whitespace == {" ", "\t", "\n", "\r", "\f"}

\* the character class [a-zA-Z0-9_-]
IdChars ==
    {"a", "b", "c", "d", "e", "f", "g", "h", "i", "j", "k", "l", "m",
     "n", "o", "p", "q", "r", "s", "t", "u", "v", "w", "x", "y", "z",
     "A", "B", "C", "D", "E", "F", "G", "H", "I", "J", "K", "L", "M",
     "N", "O", "P", "Q", "R", "S", "T", "U", "V", "W", "X", "Y", "Z",
     "0", "1", "2", "3", "4", "5", "6", "7", "8", "9", "_", "-"}

DOCUMENT_D == <<"/", "d", "o", "c", "u", "m", "e", "n", "t", "/", "d", "/">>
FILE_D == <<"/", "f", "i", "l", "e", "/", "d", "/">>

\* the bounds of {25,60} in the bare-identifier pattern
BareMin == 25
BareMax == 60

Min(S) == CHOOSE x \in S : \A y \in S : x <= y
Max(S) == CHOOSE x \in S : \A y \in S : y <= x

\* s.strip(): drop the leading and the trailing whitespace characters
strip(s) ==
    LET keep == {k \in 1..Len(s) : s[k] \notin Whitespace}
    IN  IF keep = {} THEN <<>> ELSE SubSeq(s, Min(keep), Max(keep))

\* sep.join(parts)
RECURSIVE join(_, _)
join(sep, parts) ==
    IF parts = <<>> THEN <<>>
    ELSE IF Len(parts) = 1 THEN parts[1]
    ELSE parts[1] \o sep \o join(sep, Tail(parts))

-----------------------------------------------------------------------------
(* extract_doc_id *)

\* re.search(prefix + "([a-zA-Z0-9_-]+)", s).group(1), or NONE: the leftmost
\* place where prefix is followed by an identifier character, and the longest
\* run of identifier characters from there
re_search_id(prefix, s) ==
    LET n == Len(prefix)
        starts == {p \in 1..Len(s) :
                      /\ p + n <= Len(s)
                      /\ SubSeq(s, p, p + n - 1) = prefix
                      /\ s[p + n] \in IdChars}
    IN  IF starts = {} THEN NONE
        ELSE LET b == Min(starts) + n
                 e == Max({q \in b..Len(s) : \A x \in b..q : s[x] \in IdChars})
             IN  SubSeq(s, b, e)

\* re.match(r'^[a-zA-Z0-9_-]{25,60}$', s): "$" also matches just before a
\* newline that ends the string
re_match_bare(s) ==
    \/ /\ Len(s) >= BareMin /\ Len(s) <= BareMax
       /\ \A k \in 1..Len(s) : s[k] \in IdChars
    \/ /\ Len(s) >= BareMin + 1 /\ Len(s) <= BareMax + 1
       /\ s[Len(s)] = "\n"
       /\ \A k \in 1..(Len(s) - 1) : s[k] \in IdChars

extract_doc_id_fileFirst(url) ==
    IF url = NONE \/ url = <<>> \/ ~IsStr(url) THEN NONE
    ELSE LET u == strip(url)
             m1 == re_search_id(FILE_D, u)
             m2 == re_search_id(DOCUMENT_D, u)
         IN  IF m1 # NONE THEN m1
             ELSE IF m2 # NONE THEN m2
             ELSE IF re_match_bare(u) THEN u
             ELSE NONE

extract_doc_id(url) ==
    IF url = NONE \/ url = <<>> \/ ~IsStr(url) THEN NONE
    ELSE LET u == strip(url)
             m1 == re_search_id(DOCUMENT_D, u)
             m2 == re_search_id(FILE_D, u)
         IN  IF m1 # NONE THEN m1
             ELSE IF m2 # NONE THEN m2
             ELSE IF re_match_bare(u) THEN u
             ELSE NONE

-----------------------------------------------------------------------------
(* read_doc_text *)

(***************************************************************************)
(* What docs_service.documents().get(documentId=...).execute() gives:      *)
(*   [kind |-> "doc", content |-> body.content, msg |-> <<>>]  a document, *)
(*   [kind |-> "HttpError", ...] or [kind |-> "Exception", ...]  a raise   *)
(* with message msg.  A block of content is                                *)
(*   [type |-> "paragraph", runs |-> paragraph.elements, rows |-> <<>>],   *)
(*   [type |-> "table", runs |-> <<>>, rows |-> tableRows], each row the   *)
(*   sequence of its tableCells, each cell the sequence of its content     *)
(*   blocks, or                                                            *)
(*   [type |-> "other", ...]  a block with neither key (a section break).  *)
(* A run is [textRun |-> BOOLEAN, content |-> str].  An absent key is the  *)
(* empty sequence, which the code treats the same.                         *)
(***************************************************************************)

RECURSIVE flatten(_)
flatten(lists) ==
    IF lists = <<>> THEN <<>> ELSE lists[1] \o flatten(Tail(lists))

\* the contents of the runs that have a textRun, in order
text_runs(runs) ==
    LET tr == SelectSeq(runs, LAMBDA r : r.textRun)
    IN  [k \in 1..Len(tr) |-> tr[k].content]

paragraph_parts_newline(block) == Append(text_runs(block.runs), <<"\n">>)

\* lines 125-128: what a paragraph block appends to text
paragraph_parts(block) == text_runs(block.runs)

\* lines 137-144: " ".join(cell_text).strip()
cell_string(cell) ==
    LET paras == SelectSeq(cell, LAMBDA b : b.type = "paragraph")
        cell_text == flatten([k \in 1..Len(paras) |-> text_runs(paras[k].runs)])
    IN  strip(join(<<" ">>, cell_text))

\* lines 134-147: what one table row appends to text
row_parts(row) ==
    LET row_texts == [k \in 1..Len(row) |-> cell_string(row[k])]
    IN  IF row_texts # <<>> THEN <<join(<<"\t">>, row_texts), <<"\n">>>>
        ELSE <<>>

\* lines 129-147: what a table block appends to text
table_parts(block) ==
    flatten([k \in 1..Len(block.rows) |-> row_parts(block.rows[k])])

\* lines 123-147: the list text after the walk over content
text_parts(content) ==
    flatten([k \in 1..Len(content) |->
                IF content[k].type = "paragraph" THEN paragraph_parts(content[k])
                ELSE IF content[k].type = "table" THEN table_parts(content[k])
                ELSE <<>>])

\* "".join(text)
block_text(content) == join(<<>>, text_parts(content))

\* a strip() that also collapses runs of three or more newlines to two
RECURSIVE collapse_newlines(_)
collapse_newlines(s) ==
    IF Len(s) < 3 THEN s
    ELSE IF s[1] = "\n" /\ s[2] = "\n" /\ s[3] = "\n"
         THEN collapse_newlines(Tail(s))
         ELSE <<s[1]>> \o collapse_newlines(Tail(s))

read_doc_text_collapse(response) ==
    IF response.kind = "doc"
    THEN strip(collapse_newlines(block_text(response.content)))
    ELSE NONE

\* lines 117-155: the text of the document, or None when the get raised
read_doc_text(response) ==
    IF response.kind = "doc" THEN strip(block_text(response.content))
    ELSE NONE

-----------------------------------------------------------------------------
(* main: the row loop and the batched writer *)

BATCH_SIZE == 5

INVALID_LINK == <<"I", "N", "V", "A", "L", "I", "D", " ", "L", "I", "N", "K">>
ERROR_PREFIX == <<"E", "R", "R", "O", "R", ":", " ">>
FAILED_TO_EXTRACT ==
    <<"E", "R", "R", "O", "R", ":", " ", "F", "a", "i", "l", "e", "d", " ",
      "t", "o", " ", "e", "x", "t", "r", "a", "c", "t", " ",
      "c", "o", "n", "t", "e", "n", "t">>

\* How a call of a sheets_service request ends: it returns, it raises
\* HttpError, or it raises an exception that is not an HttpError (the
\* transport's timeout or connection error)
WriteOutcomes == {"ok", "HttpError", "Exception"}

\* lines 119-155 as main sees them: both except clauses return None, so the
\* call never raises
call_read_doc_text(response) ==
    [raised |-> FALSE, msg |-> <<>>, text |-> read_doc_text(response)]

\* lines 313-319: the row has no link to look at
no_link_alwaysFalse(hyperlink) == FALSE

no_link(hyperlink) ==
    \/ hyperlink = NONE
    \/ (IF hyperlink # <<>> THEN strip(hyperlink) ELSE <<>>) = <<>>

\* lines 311-343: value_to_write of one row, whether a document was fetched
\* for it and whether it counts as processed; response is what the document
\* service gives when asked
row_outcome(hyperlink, response) ==
    IF no_link(hyperlink)
    THEN [value |-> <<>>, fetch |-> FALSE, counted |-> FALSE]
    ELSE LET link == strip(hyperlink)
             doc_id == extract_doc_id(link)
         IN  IF doc_id = NONE \/ doc_id = <<>>
             THEN [value |-> INVALID_LINK, fetch |-> FALSE, counted |-> FALSE]
             ELSE LET r == call_read_doc_text(response)
                  IN  IF r.raised
                      THEN [value |-> ERROR_PREFIX \o r.msg, fetch |-> TRUE,
                            counted |-> FALSE]
                      ELSE IF r.text # NONE /\ r.text # <<>>
                      THEN [value |-> r.text, fetch |-> TRUE, counted |-> TRUE]
                      ELSE [value |-> FAILED_TO_EXTRACT, fetch |-> TRUE,
                            counted |-> FALSE]

append_update_skipInvalid(updates_list, row, value) ==
    IF value = INVALID_LINK THEN updates_list
    ELSE Append(updates_list, <<row, value>>)

\* line 346: updates.append((i, value_to_write))
append_update(updates_list, row, value) == Append(updates_list, <<row, value>>)

batch_full_off_by_one(updates_list) == Len(updates_list) > BATCH_SIZE

\* line 349: len(updates) >= BATCH_SIZE
batch_full(updates_list) == Len(updates_list) >= BATCH_SIZE

batch_rows_reversed(updates_list) ==
    [k \in 1..Len(updates_list) |-> updates_list[Len(updates_list) + 1 - k][1]]

\* lines 280, 299: the rows of updates_list in the order the loops visit them
batch_rows(updates_list) ==
    [k \in 1..Len(updates_list) |-> updates_list[k][1]]

(***************************************************************************)
(* lines 273-308: flush_updates(updates_list).  batch is how the          *)
(* batchUpdate call ends and single[k] how the k-th individual update call *)
(* would end.  The result is the calls made, in order, and whether an      *)
(* exception left the function: only HttpError is caught, at both levels.  *)
(***************************************************************************)
flush_updates(updates_list, batch, single) ==
    IF updates_list = <<>> THEN [calls |-> <<>>, raised |-> FALSE]
    ELSE
    LET rows == batch_rows(updates_list)
        batch_call == [op |-> "batchUpdate", rows |-> rows, outcome |-> batch]
        stops == {k \in 1..Len(rows) : single[k] = "Exception"}
        last == IF stops = {} THEN Len(rows) ELSE Min(stops)
    IN  IF batch = "ok" THEN [calls |-> <<batch_call>>, raised |-> FALSE]
        ELSE IF batch = "Exception"
        THEN [calls |-> <<batch_call>>, raised |-> TRUE]
        ELSE [calls |-> <<batch_call>> \o
                        [k \in 1..last |-> [op |-> "update",
                                            rows |-> <<rows[k]>>,
                                            outcome |-> single[k]]],
              raised |-> stops # {}]

\* how the individual calls of the fallback can end; they are made only
\* after the batch call raised HttpError
SingleOutcomes(updates_list, batch) ==
    IF batch = "HttpError" THEN [1..Len(updates_list) -> WriteOutcomes]
    ELSE {[k \in 1..Len(updates_list) |-> "ok"]}

\* line 354: if updates
final_flush_needed_always(updates_list) == TRUE

final_flush_needed(updates_list) == updates_list # <<>>

-----------------------------------------------------------------------------
(* inputs *)

MaxRows == 11

\* at most this many calls to the spreadsheet service fail in one run
MaxFaults == 3

Faults(calls) == Cardinality({k \in 1..Len(calls) : calls[k].outcome # "ok"})

DocUrl ==
    <<" ", "h", "t", "t", "p", "s", ":", "/", "/", "d", "o", "c", "s", ".",
      "g", "o", "o", "g", "l", "e", ".", "c", "o", "m", "/", "d", "o", "c",
      "u", "m", "e", "n", "t", "/", "d", "/", "a", "B", "-", "9", "_", "/",
      "e", "d", "i", "t", " ">>
FileUrl ==
    <<"h", "t", "t", "p", "s", ":", "/", "/", "d", "r", "i", "v", "e", ".",
      "g", "o", "o", "g", "l", "e", ".", "c", "o", "m", "/", "f", "i", "l",
      "e", "/", "d", "/", "x", "1", "/", "v", "i", "e", "w">>
Garbage == <<"n", "o", "t", " ", "a", " ", "l", "i", "n", "k">>

\* the kinds of cell get_hyperlinks_from_column can give
LinkPool == <<NONE, DocUrl, <<>>, Garbage, <<" ", "\t">>, FileUrl>>

\* the lists of links the runs start from: every length up to MaxRows, the
\* kinds of link in rotation from every starting kind
LinkLists ==
    {[k \in 1..n |-> LinkPool[((k - 1 + off) % Len(LinkPool)) + 1]] :
        n \in 0..MaxRows, off \in 0..(Len(LinkPool) - 1)}

Para(runs) == [type |-> "paragraph", runs |-> runs, rows |-> <<>>]
Text(s) == [textRun |-> TRUE, content |-> s]
NonText == [textRun |-> FALSE, content |-> <<>>]
Doc(content) == [kind |-> "doc", content |-> content, msg |-> <<>>]
Raise(kind, msg) == [kind |-> kind, content |-> <<>>, msg |-> msg]

HttpError404 == Raise("HttpError", <<"4", "0", "4">>)
Timeout == Raise("Exception", <<"t", "i", "m", "e", "o", "u", "t">>)

\* what the document service answers in a run of main: a document with
\* text, a document whose text is blank, an HttpError, another exception
MainResponses ==
    {Doc(<<Para(<<Text(<<"H", "i", "\n">>)>>)>>),
     Doc(<<Para(<<Text(<<"\n">>)>>)>>),
     HttpError404, Timeout}

NoRow == [row |-> 0, hyperlink |-> NONE, response |-> "none", msg |-> <<>>,
          value |-> <<>>]

IdIdle == arg_url = NONE /\ ret_doc_id = NONE /\ id_pc = "idle"
DocIdle == service_doc = Timeout /\ ret_text = NONE /\ doc_pc = "idle"
MainIdle ==
    /\ hyperlinks = <<>> /\ i = 2 /\ pc = "idle" /\ updates = <<>>
    /\ processed_count = 0 /\ last_row = NoRow /\ accumulated = <<>>
    /\ fetched = <<>> /\ flushes = <<>> /\ sheet_calls = <<>>

-----------------------------------------------------------------------------
(* main as a state machine *)

Init ==
    /\ hyperlinks \in LinkLists
    /\ i = 2
    /\ pc = "loop"
    /\ updates = <<>>
    /\ processed_count = 0
    /\ last_row = NoRow
    /\ accumulated = <<>>
    /\ fetched = <<>>
    /\ flushes = <<>>
    /\ sheet_calls = <<>>
    /\ IdIdle
    /\ DocIdle

\* lines 310-346: one row's value is computed and added to the batch
ProcessRow ==
    /\ pc = "loop"
    /\ i - 1 <= Len(hyperlinks)
    /\ \E response \in MainResponses :
          LET o == row_outcome(hyperlinks[i - 1], response)
              added == append_update(updates, i, o.value)
          IN  /\ updates' = added
              /\ accumulated' = accumulated \o
                    batch_rows(SubSeq(added, Len(updates) + 1, Len(added)))
              /\ fetched' = IF o.fetch THEN Append(fetched, i) ELSE fetched
              /\ processed_count' = processed_count + (IF o.counted THEN 1 ELSE 0)
              /\ last_row' = [row |-> i, hyperlink |-> hyperlinks[i - 1],
                              response |-> IF o.fetch THEN response.kind ELSE "none",
                              msg |-> IF o.fetch THEN response.msg ELSE <<>>,
                              value |-> o.value]
    /\ pc' = "batch"
    /\ UNCHANGED <<hyperlinks, i, flushes, sheet_calls>>
    /\ UNCHANGED <<id_vars, doc_vars>>

\* lines 349-351: the batch is flushed and emptied once it is full
FlushWhenFull ==
    /\ pc = "batch"
    /\ IF batch_full(updates)
       THEN \E batch \in WriteOutcomes : \E single \in SingleOutcomes(updates, batch) :
               LET f == flush_updates(updates, batch, single)
               IN  /\ Faults(sheet_calls \o f.calls) <= MaxFaults
                   /\ flushes' = Append(flushes, batch_rows(updates))
                   /\ sheet_calls' = sheet_calls \o f.calls
                   /\ updates' = IF f.raised THEN updates ELSE <<>>
                   /\ pc' = IF f.raised THEN "raised" ELSE "loop"
                   /\ i' = IF f.raised THEN i ELSE i + 1
       ELSE /\ UNCHANGED <<flushes, sheet_calls, updates>>
            /\ pc' = "loop"
            /\ i' = i + 1
    /\ UNCHANGED <<hyperlinks, processed_count, last_row, accumulated, fetched>>
    /\ UNCHANGED <<id_vars, doc_vars>>

\* lines 353-355: after the last row, what is left in the batch is flushed
FinalFlush ==
    /\ pc = "loop"
    /\ i - 1 > Len(hyperlinks)
    /\ IF final_flush_needed(updates)
       THEN \E batch \in WriteOutcomes : \E single \in SingleOutcomes(updates, batch) :
               LET f == flush_updates(updates, batch, single)
               IN  /\ Faults(sheet_calls \o f.calls) <= MaxFaults
                   /\ flushes' = Append(flushes, batch_rows(updates))
                   /\ sheet_calls' = sheet_calls \o f.calls
                   /\ pc' = IF f.raised THEN "raised" ELSE "report"
       ELSE /\ UNCHANGED <<flushes, sheet_calls>>
            /\ pc' = "report"
    /\ UNCHANGED <<hyperlinks, i, updates, processed_count, last_row,
                   accumulated, fetched>>
    /\ UNCHANGED <<id_vars, doc_vars>>

\* lines 357-358: the summary and "Done!"
Report ==
    /\ pc = "report"
    /\ pc' = "done"
    /\ UNCHANGED <<hyperlinks, i, updates, processed_count, last_row,
                   accumulated, fetched, flushes, sheet_calls>>
    /\ UNCHANGED <<id_vars, doc_vars>>

Next == ProcessRow \/ FlushWhenFull \/ FinalFlush \/ Report

Spec == Init /\ [][Next]_vars

-----------------------------------------------------------------------------
(* extract_doc_id on its own: one call on each of a set of inputs *)

MaxBareLen == 62

Run(n, c) == [k \in 1..n |-> c]

HostPrefix ==
    <<"h", "t", "t", "p", "s", ":", "/", "/", "d", "o", "c", "s", ".", "g",
      "o", "o", "g", "l", "e", ".", "c", "o", "m">>

\* strings without a URL marker: runs of "a" of every length up to
\* MaxBareLen, with the first or the last character varied over safe and
\* unsafe characters
BareBodies ==
    {Run(n, "a") : n \in 0..MaxBareLen}
    \cup {Run(n - 1, "a") \o <<c>> :
            n \in 1..MaxBareLen, c \in {"_", "-", "9", "Z", ".", "/"}}
    \cup {<<c>> \o Run(n - 1, "a") : n \in 1..MaxBareLen, c \in {"-", " ", "."}}
    \cup {Run(n, "a") \o <<" ">> \o Run(n, "a") : n \in {12, 13, 30}}

\* strings built around a URL marker, well-formed or not
UrlBodies ==
    {pre \o marker \o id \o post :
        pre \in {<<>>, HostPrefix},
        marker \in {DOCUMENT_D, FILE_D,
                    <<"/", "D", "o", "c", "u", "m", "e", "n", "t", "/", "d", "/">>,
                    <<"/", "d", "o", "c", "u", "m", "e", "n", "t", "/", "d">>},
        id \in {<<>>, <<"x">>, <<"a", "B", "-", "9", "_">>, Run(30, "a")},
        post \in {<<>>, <<"/", "e", "d", "i", "t">>, <<"?", "q">>,
                  FILE_D \o <<"y", "2">>, DOCUMENT_D \o <<"z", "3">>}}

UrlInputs ==
    {NONE, NONSTR}
    \cup {lead \o body \o trail :
            lead \in {<<>>, <<" ">>}, trail \in {<<>>, <<"\n">>},
            body \in BareBodies \cup UrlBodies}

InitId ==
    /\ arg_url \in UrlInputs
    /\ ret_doc_id = NONE
    /\ id_pc = "call"
    /\ DocIdle
    /\ MainIdle

\* lines 90-114
ExtractDocId ==
    /\ id_pc = "call"
    /\ ret_doc_id' = extract_doc_id(arg_url)
    /\ id_pc' = "returned"
    /\ UNCHANGED <<arg_url, doc_vars, main_vars>>

NextId == ExtractDocId

SpecId == InitId /\ [][NextId]_vars

-----------------------------------------------------------------------------
(* read_doc_text on its own: one call on each of a set of documents *)

MaxBlocks == 4

Table(rows) == [type |-> "table", runs |-> <<>>, rows |-> rows]
Other == [type |-> "other", runs |-> <<>>, rows |-> <<>>]

Hello == <<"H", "e", "l", "l", "o">>
World == <<"W", "o", "r", "l", "d">>

\* a table of three rows: cells "A" and "B"; a row without cells; a cell of
\* two paragraphs " C " and "D", a cell without content
SampleTable ==
    Table(<< <<  <<Para(<<Text(<<"A">>)>>)>>, <<Para(<<Text(<<"B">>)>>)>>  >>,
             <<>>,
             <<  <<Para(<<Text(<<" ", "C", " ">>)>>), Other,
                   Para(<<Text(<<"D">>)>>)>>,
                 <<>>  >> >>)

BlockPool ==
    {Para(<<Text(Hello)>>),
     Para(<<Text(World)>>),
     Para(<<Text(Hello \o <<"\n">>)>>),
     Para(<<Text(World \o <<"\n">>)>>),
     Para(<<Text(<<"\n">>)>>),
     Para(<<Text(<<"\n">>), NonText, Text(<<"\n">>)>>),
     SampleTable,
     Other}

DocInputs ==
    {HttpError404, Timeout}
    \cup {Doc(content) :
            content \in UNION {[1..n -> BlockPool] : n \in 0..MaxBlocks}}

InitDoc ==
    /\ service_doc \in DocInputs
    /\ ret_text = NONE
    /\ doc_pc = "call"
    /\ IdIdle
    /\ MainIdle

\* lines 117-155
ReadDocText ==
    /\ doc_pc = "call"
    /\ ret_text' = read_doc_text(service_doc)
    /\ doc_pc' = "returned"
    /\ UNCHANGED <<service_doc, id_vars, main_vars>>

NextDoc == ReadDocText

SpecDoc == InitDoc /\ [][NextDoc]_vars

-----------------------------------------------------------------------------
(* Properties of main (specification Spec) *)

Rows == 2..(Len(hyperlinks) + 1)
Count(seq, x) == Cardinality({k \in 1..Len(seq) : seq[k] = x})
Increasing(seq) == \A k \in 1..(Len(seq) - 1) : seq[k] < seq[k + 1]
NonDecreasing(seq) == \A k \in 1..(Len(seq) - 1) : seq[k] <= seq[k + 1]
IsBlank(h) == h = NONE \/ \A k \in 1..Len(h) : h[k] \in Whitespace
HasLink(r) == ~IsBlank(hyperlinks[r - 1])

\* the indices of the calls of one kind in sheet_calls
BatchCalls == {k \in 1..Len(sheet_calls) : sheet_calls[k].op = "batchUpdate"}
SingleCalls == {k \in 1..Len(sheet_calls) : sheet_calls[k].op = "update"}

\* the rows of the cell writes in the order they reach the spreadsheet: a
\* batch call that returns writes its rows, a batch call that raises writes
\* none, an individual call is one write
RECURSIVE SinkRows(_)
SinkRows(calls) ==
    IF calls = <<>> THEN <<>>
    ELSE (IF calls[1].op = "batchUpdate" /\ calls[1].outcome # "ok"
          THEN <<>> ELSE calls[1].rows) \o SinkRows(Tail(calls))

\* C1: every row that had a non-empty link has exactly one (row, value) pair
\* accumulated into the pending batch by the time the run reports
\* completion, and no row ever has more than one.
C1_ExactlyOneValuePerRow ==
    /\ \A k \in 1..Len(accumulated) : accumulated[k] \in Rows
    /\ \A r \in Rows : Count(accumulated, r) <= 1
    /\ pc \in {"report", "done"} =>
          \A r \in Rows : HasLink(r) => Count(accumulated, r) = 1

C1_Witness ==
    /\ pc = "done"
    /\ Len(hyperlinks) > BATCH_SIZE
    /\ \E r \in Rows : HasLink(r) /\ Count(accumulated, r) = 1
    /\ Faults(sheet_calls) > 0

\* C2: when a batch write call fails, each row of that batch is attempted as
\* an individual write exactly once, and a row whose individual write fails
\* too is in no later flush.
C2_FallbackOncePerRow ==
    /\ \A b \in BatchCalls :
          sheet_calls[b].outcome # "ok" =>
             \A j \in 1..Len(sheet_calls[b].rows) :
                Cardinality({k \in SingleCalls :
                    sheet_calls[k].rows = <<sheet_calls[b].rows[j]>>}) = 1
    /\ \A k \in SingleCalls :
          sheet_calls[k].outcome # "ok" =>
             Cardinality({f \in 1..Len(flushes) :
                 \E j \in 1..Len(flushes[f]) :
                    flushes[f][j] = sheet_calls[k].rows[1]}) = 1

\* C2 restricted to batch and individual calls that fail with HttpError
C2_FallbackOncePerRowOnHttpError ==
    /\ \A b \in BatchCalls :
          (sheet_calls[b].outcome = "HttpError" /\ pc # "raised") =>
             \A j \in 1..Len(sheet_calls[b].rows) :
                Cardinality({k \in SingleCalls :
                    sheet_calls[k].rows = <<sheet_calls[b].rows[j]>>}) = 1
    /\ \A k \in SingleCalls :
          Cardinality({f \in 1..Len(flushes) :
              \E j \in 1..Len(flushes[f]) :
                 flushes[f][j] = sheet_calls[k].rows[1]}) = 1

\* C3: a fetch that fails or raises gives the row the value "ERROR: " followed
\* by the failure's message, which is not the "ERROR: Failed to extract
\* content" marker; that marker is given only to a fetch that succeeded with
\* empty text.
C3_FetchFailureCarriesMessage ==
    /\ last_row.response \in {"HttpError", "Exception"} =>
          /\ last_row.value = ERROR_PREFIX \o last_row.msg
          /\ last_row.value # FAILED_TO_EXTRACT
    /\ last_row.value = FAILED_TO_EXTRACT => last_row.response = "doc"

\* C4: no failure of a document fetch, a batch write or an individual write
\* ends the run before its completion report.
C4_NoFailureEndsTheRun == pc # "raised"

C6_RowOrder ==
    /\ Increasing(accumulated)
    /\ Increasing(fetched)
    /\ NonDecreasing(SinkRows(sheet_calls))
    /\ pc \in {"report", "done"} =>
          \A k \in 1..Len(accumulated) :
             \E c \in 1..Len(sheet_calls) :
                \E j \in 1..Len(sheet_calls[c].rows) :
                   sheet_calls[c].rows[j] = accumulated[k]

C6_Witness ==
    /\ pc = "done"
    /\ Len(fetched) >= 2
    /\ \E b \in BatchCalls : sheet_calls[b].outcome = "HttpError"
    /\ \E b \in BatchCalls : sheet_calls[b].outcome = "ok"
    /\ \E k \in SingleCalls : sheet_calls[k].outcome = "HttpError"
    /\ Len(SinkRows(sheet_calls)) = Len(hyperlinks)

\* C7: an absent, an empty and a whitespace-only link resolve to no match and
\* give the row the value "", never "INVALID LINK"; a non-blank link the
\* resolver does not recognise gives exactly "INVALID LINK", and no document
\* is fetched for it.
C7_BlankIsNotInvalid ==
    /\ \A r \in Rows :
          IsBlank(hyperlinks[r - 1]) =>
             /\ extract_doc_id(hyperlinks[r - 1]) = NONE
             /\ Count(fetched, r) = 0
    /\ \A r \in Rows :
          (HasLink(r) /\ extract_doc_id(hyperlinks[r - 1]) = NONE) =>
             Count(fetched, r) = 0
    /\ \A k \in 1..Len(updates) :
          LET r == updates[k][1]
              v == updates[k][2]
          IN  /\ IsBlank(hyperlinks[r - 1]) => (v = <<>> /\ v # INVALID_LINK)
              /\ (HasLink(r) /\ extract_doc_id(hyperlinks[r - 1]) = NONE)
                    => v = INVALID_LINK

C7_Witness ==
    /\ \E k \in 1..Len(updates) :
          hyperlinks[updates[k][1] - 1] = <<" ", "\t">> /\ updates[k][2] = <<>>
    /\ \E k \in 1..Len(updates) :
          hyperlinks[updates[k][1] - 1] = Garbage /\ updates[k][2] = INVALID_LINK
    /\ \E k \in 1..Len(updates) : hyperlinks[updates[k][1] - 1] = NONE
    /\ \E k \in 1..Len(updates) : hyperlinks[updates[k][1] - 1] = <<>>

-----------------------------------------------------------------------------
(* Properties of extract_doc_id (specification SpecId) *)

\* the places where prefix is followed by an identifier character
Occurrences(prefix, s) ==
    {p \in 1..Len(s) :
        /\ p + Len(prefix) <= Len(s)
        /\ \A k \in 1..Len(prefix) : s[p + k - 1] = prefix[k]
        /\ s[p + Len(prefix)] \in IdChars}

\* r is the identifier at the first such place: the longest run of
\* identifier characters that follows the prefix there
IsIdAfter(prefix, s, r) ==
    \E p \in Occurrences(prefix, s) :
        LET b == p + Len(prefix)
        IN  /\ \A q \in Occurrences(prefix, s) : p <= q
            /\ r # NONE
            /\ Len(r) >= 1
            /\ b + Len(r) - 1 <= Len(s)
            /\ \A k \in 1..Len(r) : r[k] = s[b + k - 1] /\ r[k] \in IdChars
            /\ (b + Len(r) <= Len(s) => s[b + Len(r)] \notin IdChars)

AllIdChars(s) == \A k \in 1..Len(s) : s[k] \in IdChars

\* the parts <<lo, hi>> of s made of 25 to 60 identifier characters with
\* only whitespace before and after
BareCores(s) ==
    {c \in (1..Len(s)) \X (1..Len(s)) :
        /\ c[2] - c[1] + 1 >= 25
        /\ c[2] - c[1] + 1 <= 60
        /\ \A k \in 1..Len(s) :
              IF k >= c[1] /\ k <= c[2] THEN s[k] \in IdChars
              ELSE s[k] \in Whitespace}

\* C8 as stated: /document/d/<id> first, then /file/d/<id>, then the input
\* itself if and only if it is 25 to 60 identifier characters, else no match.
C8_InputItself ==
    id_pc = "returned" =>
       IF ~IsStr(arg_url) THEN ret_doc_id = NONE
       ELSE IF Occurrences(DOCUMENT_D, arg_url) # {}
            THEN IsIdAfter(DOCUMENT_D, arg_url, ret_doc_id)
       ELSE IF Occurrences(FILE_D, arg_url) # {}
            THEN IsIdAfter(FILE_D, arg_url, ret_doc_id)
       ELSE IF AllIdChars(arg_url) /\ Len(arg_url) >= 25 /\ Len(arg_url) <= 60
            THEN ret_doc_id = arg_url
       ELSE ret_doc_id = NONE

\* C8 amended: the third rule looks at the input with its leading and
\* trailing whitespace removed, and returns that.
C8_TrimmedInput ==
    id_pc = "returned" =>
       IF ~IsStr(arg_url) THEN ret_doc_id = NONE
       ELSE IF Occurrences(DOCUMENT_D, arg_url) # {}
            THEN IsIdAfter(DOCUMENT_D, arg_url, ret_doc_id)
       ELSE IF Occurrences(FILE_D, arg_url) # {}
            THEN IsIdAfter(FILE_D, arg_url, ret_doc_id)
       ELSE IF BareCores(arg_url) # {}
            THEN \E c \in BareCores(arg_url) :
                    ret_doc_id = SubSeq(arg_url, c[1], c[2])
       ELSE ret_doc_id = NONE

C8_Witness ==
    /\ id_pc = "returned"
    /\ arg_url = <<" ">> \o Run(25, "a") \o <<"\n">>
    /\ ret_doc_id = Run(25, "a")

-----------------------------------------------------------------------------
(* Properties of read_doc_text (specification SpecDoc) *)

TableFree(content) == \A k \in 1..Len(content) : content[k].type # "table"

\* the text of each paragraph block of content, in document order
ParagraphTexts(content) ==
    LET paras == SelectSeq(content, LAMBDA b : b.type = "paragraph")
    IN  [k \in 1..Len(paras) |-> join(<<>>, text_runs(paras[k].runs))]

HasNewlineRun(s, n) ==
    \E k \in 1..Len(s) : k + n - 1 <= Len(s) /\ \A j \in 0..(n - 1) : s[k + j] = "\n"

\* C9 as stated: the returned text never holds three consecutive newlines.
C9_NoThreeNewlines ==
    (doc_pc = "returned" /\ ret_text # NONE) => ~HasNewlineRun(ret_text, 3)

\* C9 amended: the returned text is the concatenated block text without its
\* leading and trailing whitespace and otherwise unchanged, so runs of
\* newlines inside it are kept at their length.
C9_OnlyEndsTrimmed ==
    (doc_pc = "returned" /\ service_doc.kind = "doc") =>
       LET raw == block_text(service_doc.content)
       IN  /\ ret_text # NONE
           /\ ret_text # <<>> =>
                 (ret_text[1] \notin Whitespace
                    /\ ret_text[Len(ret_text)] \notin Whitespace)
           /\ \E lo \in 0..Len(raw) :
                 /\ lo + Len(ret_text) <= Len(raw)
                 /\ \A k \in 1..Len(raw) :
                       IF k > lo /\ k <= lo + Len(ret_text)
                       THEN raw[k] = ret_text[k - lo]
                       ELSE raw[k] \in Whitespace

C9_Witness ==
    /\ doc_pc = "returned"
    /\ service_doc.kind = "doc"
    /\ HasNewlineRun(block_text(service_doc.content), 4)
    /\ ret_text # NONE
    /\ HasNewlineRun(ret_text, 4)
    /\ ~HasNewlineRun(ret_text, 5)

\* C10 as stated: a table-free document gives its paragraphs' texts with a
\* newline between consecutive paragraphs and none trailing.
C10_NewlineBetweenParagraphs ==
    (doc_pc = "returned" /\ service_doc.kind = "doc"
        /\ TableFree(service_doc.content)) =>
       ret_text = strip(join(<<"\n">>, ParagraphTexts(service_doc.content)))

\* C10 amended: a table-free document gives its paragraphs' texts in
\* document order with nothing put between them, trimmed at both ends.
C10_NoSeparatorAdded ==
    (doc_pc = "returned" /\ service_doc.kind = "doc"
        /\ TableFree(service_doc.content)) =>
       /\ ret_text = strip(join(<<>>, ParagraphTexts(service_doc.content)))
       /\ service_doc.content = <<Para(<<Text(Hello)>>), Para(<<Text(World)>>)>>
             => ret_text = Hello \o World
       /\ service_doc.content = <<Para(<<Text(Hello \o <<"\n">>)>>),
                                  Para(<<Text(World \o <<"\n">>)>>)>>
             => ret_text = Hello \o <<"\n">> \o World

C10_Witness ==
    /\ doc_pc = "returned"
    /\ service_doc = Doc(<<Para(<<Text(Hello)>>), Para(<<Text(World)>>)>>)
    /\ ret_text = Hello \o World

=============================================================================
